---- MODULE Spec2Model ----
(***************************************************************************)
(* Model of the money-transfer client: validators.py, config.py,           *)
(* client.py and transfer.py.  One call of transfer_money is followed from *)
(* its arguments through validation, session creation, the attempts made   *)
(* by the session's retry policy, the classification of the outcome and    *)
(* the finally block.                                                      *)
(*                                                                         *)
(* Times are in tenths of a second, so backoff_factor 0.3 is 3 and 1.0 is  *)
(* 10.  Responses carry no Retry-After header.                             *)
(*                                                                         *)
(* Spec follows one call; SpecCli puts the call inside the interactive     *)
(* loop of cli.py; SpecStartup applies TransferConfig.from_environment and *)
(* get_jwt_token to environments and server answers; SpecConc interleaves  *)
(* two calls that share one configuration.                                 *)
(***************************************************************************)
EXTENDS Integers, Sequences, FiniteSets, TLC

VARIABLES pc, args, config, validated, session, sessions_created, request,
          attempts, retries, delays, only503, last, response, raised, log,
          pending, outcome, post_calls,
          cli_pc, cli_config, cli_token, amount_str, cli_called, shown,
          exit_cause,
          st_pc, env, cfg_out, auth_resp, token_out,
          threads, live_sessions, shared_config

\* the state of one transfer_money call
tm_vars == <<pc, args, config, validated, session, sessions_created, request,
             attempts, retries, delays, only503, last, response, raised, log,
             pending, outcome, post_calls>>

\* run_interactive_cli: its position, arguments, the iteration's amount text,
\* whether the iteration called transfer_money, the message shown, why it left
cli_vars == <<cli_pc, cli_config, cli_token, amount_str, cli_called, shown,
              exit_cause>>

\* start-up: the environment, the configuration read from it, the
\* authentication response and the token obtained
st_vars == <<st_pc, env, cfg_out, auth_resp, token_out>>

\* concurrent callers: the calls in flight, the sessions not yet closed, and
\* the configuration they share
cc_vars == <<threads, live_sessions, shared_config>>

\* the state outside one transfer_money call
outer_vars == <<cli_vars, st_vars, cc_vars>>

vars == <<pc, args, config, validated, session, sessions_created, request,
          attempts, retries, delays, only503, last, response, raised, log,
          pending, outcome, post_calls, outer_vars>>

(***************************************************************************)
(* Bounds and input domains                                                *)
(***************************************************************************)
MaxRetriesBound == 4

MaxAmount == 1

\* account texts: empty, blank, and two identifiers
Accounts == {"", " ", "ACC1", "ACC2"}

\* amounts: a float is a number or not-a-number
Num(n) == [k |-> "num", v |-> n]
NaN == [k |-> "nan", v |-> 0]
Amounts == {Num(n) : n \in (-MaxAmount)..MaxAmount} \cup {NaN}

\* jwt_token: None, the empty string, or a token
NoToken == [none |-> TRUE, text |-> ""]
Token(t) == [none |-> FALSE, text |-> t]
Tokens == {NoToken, Token(""), Token("tok")}

BackoffFactors == {3, 10}

\* statuses a server answers with: success, client errors, retryable errors
Statuses == {200, 201, 400, 401, 403, 404, 429, 500, 502, 503, 504}

(***************************************************************************)
(* Python values returned by response.json()                               *)
(***************************************************************************)
None == [type |-> "None", n |-> 0, txn |-> ""]
Dict(n, txn) == [type |-> "dict", n |-> n, txn |-> txn]
List == [type |-> "list", n |-> 0, txn |-> ""]
NotJson == [type |-> "invalid", n |-> 0, txn |-> ""]

BodyTexts == {"{\"transactionId\":\"TXN1\"}", "{\"status\":\"ok\"}", "{}",
              "[]", "null", "<html>", "{\"error\":\"not found\"}"}

\* json.loads on the body texts above
loads(text) ==
    CASE text = "{\"transactionId\":\"TXN1\"}" -> Dict(1, "TXN1")
      [] text = "{\"status\":\"ok\"}" -> Dict(1, "")
      [] text = "{\"error\":\"not found\"}" -> Dict(1, "")
      [] text = "{}" -> Dict(0, "")
      [] text = "[]" -> List
      [] text = "null" -> None
      [] OTHER -> NotJson

\* bodies a server sends with a status: any body on success, an error body
\* or a non-JSON page on an error status
BodiesFor(status) ==
    IF status < 300 THEN BodyTexts \ {"{\"error\":\"not found\"}"}
    ELSE {"{\"error\":\"not found\"}", "<html>"}

(***************************************************************************)
(* validators.py                                                           *)
(***************************************************************************)
le_zero_strict(amount) == amount.k = "num" /\ amount.v < 0

\* amount <= 0 on a float: false for not-a-number
le_zero(amount) == amount.k = "num" /\ amount.v <= 0

validate_checks_from_only(from_acc, to_acc, amount) ==
    IF le_zero(amount) THEN "InvalidAmount"
    ELSE IF from_acc = "" THEN "EmptyAccount"
    ELSE IF from_acc = to_acc THEN "SameAccount"
    ELSE "ok"

validate_same_before_empty(from_acc, to_acc, amount) ==
    IF le_zero(amount) THEN "InvalidAmount"
    ELSE IF from_acc = to_acc THEN "SameAccount"
    ELSE IF from_acc = "" \/ to_acc = "" THEN "EmptyAccount"
    ELSE "ok"

validate_transfer_inputs(from_acc, to_acc, amount) ==
    IF le_zero(amount) THEN "InvalidAmount"
    ELSE IF from_acc = "" \/ to_acc = "" THEN "EmptyAccount"
    ELSE IF from_acc = to_acc THEN "SameAccount"
    ELSE "ok"

(***************************************************************************)
(* client.py: the retry policy bound to the session                        *)
(***************************************************************************)
status_forcelist_with_404 == {404, 429, 500, 502, 503, 504}

status_forcelist == {429, 500, 502, 503, 504}

allowed_methods == {"POST"}

raise_on_status == FALSE

BACKOFF_MAX == 1200

RECURSIVE Pow2(_)
Pow2(n) == IF n <= 0 THEN 1 ELSE 2 * Pow2(n - 1)

Min(a, b) == IF a <= b THEN a ELSE b

\* Retry.is_retry: the method is allowed and the status is in the forcelist
is_retry(method, status) ==
    method \in allowed_methods /\ status \in status_forcelist

\* Retry.get_backoff_time with n consecutive failures in the history
get_backoff_time(n, backoff_factor) ==
    IF n <= 1 THEN 0
    ELSE Min(BACKOFF_MAX, backoff_factor * Pow2(n - 1))

is_exhausted_early(used, total) == used + 1 >= total

\* Retry.increment exhausts the budget when total would fall below zero
is_exhausted(used, total) == used >= total

(***************************************************************************)
(* transfer.py                                                             *)
(***************************************************************************)
headers_for_always_auth(jwt_token) ==
    {<<"Content-Type", "application/json">>,
     <<"User-Agent", "MoneyTransferClient/1.0">>,
     <<"Authorization", "Bearer " \o jwt_token.text>>}

\* transfer.py lines 72-77: `if jwt_token` is false for None and for ""
headers_for(jwt_token) ==
    {<<"Content-Type", "application/json">>,
     <<"User-Agent", "MoneyTransferClient/1.0">>}
    \cup (IF ~jwt_token.none /\ jwt_token.text # ""
          THEN {<<"Authorization", "Bearer " \o jwt_token.text>>}
          ELSE {})

NoArgs == [from_acc |-> "", to_acc |-> "", amount |-> Num(0), jwt_token |-> NoToken]
NoConfig == [api_url |-> "", timeout |-> 0, max_retries |-> 0, backoff_factor |-> 0]
NoRequest == [url |-> "", fromAccount |-> "", toAccount |-> "", amount |-> Num(0),
              timeout |-> 0, headers |-> {}]
NoLast == [kind |-> "none", status |-> 0]
NoResponse == [present |-> FALSE, status |-> 0, text |-> ""]
NoLog == [handler |-> "none", status |-> {}, detail |-> ""]
NoOutcome == [kind |-> "none", exc |-> "", value |-> None]

\* Response.__bool__ is Response.ok: false for 4xx and 5xx
response_ok(resp) == ~(400 <= resp.status /\ resp.status < 600)

handler_for_no_catch_all(exc) ==
    CASE exc = "HTTPError" -> "HTTPError"
      [] exc = "Timeout" -> "Timeout"
      [] exc = "ConnectionError" -> "ConnectionError"
      [] exc = "RequestException" -> "RequestException"
      [] exc = "RetryError" -> "RequestException"
      [] exc = "ValueError" -> "ValueError"
      [] OTHER -> "none"

\* the except clause that handles an exception class, in source order
handler_for(exc) ==
    CASE exc = "HTTPError" -> "HTTPError"
      [] exc = "Timeout" -> "Timeout"
      [] exc = "ConnectionError" -> "ConnectionError"
      [] exc = "RequestException" -> "RequestException"
      [] exc = "RetryError" -> "RequestException"
      [] exc = "ValueError" -> "ValueError"
      [] exc = "KeyboardInterrupt" -> "none"
      [] OTHER -> "Exception"

TypeOK ==
    /\ pc \in {"idle", "validate", "session", "post", "classify", "finally", "done"}
    /\ validated \in BOOLEAN
    /\ session \in {"none", "open", "closed"}
    /\ attempts \in 0..(MaxRetriesBound + 1)
    /\ retries \in 0..MaxRetriesBound

\* no transfer_money call has started
InitCall ==
    /\ pc = "idle"
    /\ args = NoArgs
    /\ config = NoConfig
    /\ validated = FALSE
    /\ session = "none"
    /\ sessions_created = 0
    /\ request = NoRequest
    /\ attempts = 0
    /\ retries = 0
    /\ delays = <<>>
    /\ only503 = TRUE
    /\ last = NoLast
    /\ response = NoResponse
    /\ raised = ""
    /\ log = NoLog
    /\ pending = NoOutcome
    /\ outcome = NoOutcome
    /\ post_calls = 0

NoEnv == [timeout |-> "unset", max_retries |-> "unset", backoff_factor |-> "unset"]
NoConfigOut ==
    [kind |-> "none",
     cfg |-> [api_url |-> "", timeout |-> 0, max_retries |-> 0,
              backoff_factor |-> Num(0)]]
NoAuthResp == [status |-> 0, text |-> ""]
NoTokenOut == [kind |-> "none", token |-> NoToken]

\* the interactive loop is not running
InitNoCli ==
    /\ cli_pc = "off"
    /\ cli_config = NoConfig
    /\ cli_token = NoToken
    /\ amount_str = ""
    /\ cli_called = FALSE
    /\ shown = "none"
    /\ exit_cause = "none"

\* no start-up in progress
InitNoStartup ==
    /\ st_pc = "off"
    /\ env = NoEnv
    /\ cfg_out = NoConfigOut
    /\ auth_resp = NoAuthResp
    /\ token_out = NoTokenOut

\* no concurrent callers
InitNoThreads ==
    /\ threads = <<>>
    /\ live_sessions = {}
    /\ shared_config = NoConfig

Init ==
    /\ InitCall
    /\ InitNoCli
    /\ InitNoStartup
    /\ InitNoThreads

\* a caller invokes transfer_money(from_acc, to_acc, amount, config, jwt_token)
Call ==
    /\ pc = "idle"
    /\ UNCHANGED <<post_calls, outer_vars>>
    /\ \E f \in Accounts, t \in Accounts, a \in Amounts, j \in Tokens,
          m \in 0..MaxRetriesBound, b \in BackoffFactors :
          /\ args' = [from_acc |-> f, to_acc |-> t, amount |-> a, jwt_token |-> j]
          /\ config' = [api_url |-> "http://localhost:8123", timeout |-> 30,
                        max_retries |-> m, backoff_factor |-> b]
    /\ pc' = "validate"
    /\ UNCHANGED <<validated, session, sessions_created, request, attempts,
                   retries, delays, only503, last, response, raised, log,
                   pending, outcome>>

ValidateNoGate ==
    /\ pc = "validate"
    /\ UNCHANGED <<post_calls, outer_vars>>
    /\ validated' = TRUE
    /\ pc' = "session"
    /\ UNCHANGED <<args, config, session, sessions_created, request, attempts,
                   retries, delays, only503, last, response, raised, log,
                   pending, outcome>>

\* transfer.py line 46: validation runs first; its ValueError propagates
Validate ==
    /\ pc = "validate"
    /\ UNCHANGED <<post_calls, outer_vars>>
    /\ validated' = TRUE
    /\ LET r == validate_transfer_inputs(args.from_acc, args.to_acc, args.amount)
       IN IF r # "ok"
          THEN /\ outcome' = [kind |-> "raised", exc |-> r, value |-> None]
               /\ pc' = "done"
          ELSE /\ outcome' = outcome
               /\ pc' = "session"
    /\ UNCHANGED <<args, config, session, sessions_created, request, attempts,
                   retries, delays, only503, last, response, raised, log,
                   pending>>

\* transfer.py lines 48-84 and client.py: url, payload, session, headers, and
\* the one invocation of session.post
CreateSession ==
    /\ pc = "session"
    /\ post_calls' = post_calls + 1
    /\ UNCHANGED outer_vars
    /\ session' = "open"
    /\ sessions_created' = sessions_created + 1
    /\ request' = [url |-> config.api_url \o "/transfer",
                   fromAccount |-> args.from_acc,
                   toAccount |-> args.to_acc,
                   amount |-> args.amount,
                   timeout |-> config.timeout,
                   headers |-> headers_for(args.jwt_token)]
    /\ pc' = "post"
    /\ UNCHANGED <<args, config, validated, attempts, retries, delays, only503,
                   last, response, raised, log, pending, outcome>>

\* the session retries: one more failure in the history, then the backoff sleep
Retry ==
    /\ retries' = retries + 1
    /\ delays' = Append(delays, get_backoff_time(retries + 1, config.backoff_factor))
    /\ pc' = "post"
    /\ UNCHANGED <<response, raised>>

\* the session hands a response to the submitter
Hand(status, text) ==
    /\ response' = [present |-> TRUE, status |-> status, text |-> text]
    /\ pc' = "classify"
    /\ UNCHANGED <<retries, delays, raised>>

\* the session raises an exception into the submitter's try block
Raise(exc) ==
    /\ raised' = exc
    /\ pc' = "classify"
    /\ UNCHANGED <<retries, delays, response>>

\* session.post sends one HTTP attempt and the server answers with a status
SendAttempt ==
    /\ pc = "post"
    /\ UNCHANGED <<post_calls, outer_vars>>
    /\ attempts' = attempts + 1
    /\ \E status \in Statuses :
          /\ last' = [kind |-> "response", status |-> status]
          /\ only503' = (only503 /\ status = 503)
          /\ IF is_retry("POST", status)
             THEN IF is_exhausted(retries, config.max_retries)
                  THEN IF raise_on_status
                       THEN Raise("RetryError")
                       ELSE \E text \in BodiesFor(status) : Hand(status, text)
                  ELSE Retry
             ELSE \E text \in BodiesFor(status) : Hand(status, text)
    /\ UNCHANGED <<args, config, validated, session, sessions_created, request,
                   log, pending, outcome>>

\* session.post sends one HTTP attempt and the transport fails
SendFails ==
    /\ pc = "post"
    /\ UNCHANGED <<post_calls, outer_vars>>
    /\ attempts' = attempts + 1
    /\ \E exc \in {"Timeout", "ConnectionError"} :
          /\ last' = [kind |-> exc, status |-> 0]
          /\ only503' = FALSE
          /\ IF is_exhausted(retries, config.max_retries)
             THEN Raise(exc)
             ELSE Retry
    /\ UNCHANGED <<args, config, validated, session, sessions_created, request,
                   log, pending, outcome>>

\* session.post raises before anything is sent, for instance when the request
\* cannot be prepared
PostRaises ==
    /\ pc = "post"
    /\ UNCHANGED <<post_calls, outer_vars>>
    /\ attempts = 0
    /\ \E exc \in {"RequestException", "Exception"} : Raise(exc)
    /\ only503' = FALSE
    /\ UNCHANGED <<args, config, validated, session, sessions_created, request,
                   attempts, last, log, pending, outcome>>

\* the exception the try body ends with, "" when it reaches return result:
\* what session.post raised, else raise_for_status, response.json and
\* result.get in turn
try_exception(exc, resp) ==
    IF exc # "" THEN exc
    ELSE IF 400 <= resp.status /\ resp.status < 600 THEN "HTTPError"
    ELSE IF loads(resp.text) = NotJson THEN "ValueError"
    ELSE IF loads(resp.text).type # "dict" THEN "AttributeError"
    ELSE ""

try_body_exception == try_exception(raised, response)

ClassifyResend ==
    /\ pc = "classify"
    /\ UNCHANGED outer_vars
    /\ IF try_body_exception # "" /\ post_calls < 2
       THEN /\ pc' = "post"
            /\ post_calls' = post_calls + 1
            /\ raised' = ""
            /\ response' = NoResponse
            /\ retries' = 0
            /\ delays' = <<>>
            /\ UNCHANGED <<pending, log>>
       ELSE /\ pc' = "finally"
            /\ pending' = IF try_body_exception = ""
                          THEN [kind |-> "returned", exc |-> "",
                                value |-> loads(response.text)]
                          ELSE [kind |-> "returned", exc |-> "", value |-> None]
            /\ log' = [handler |-> handler_for(try_body_exception), status |-> {},
                        detail |-> ""]
            /\ UNCHANGED <<post_calls, raised, response, retries, delays>>
    /\ UNCHANGED <<args, config, validated, session, sessions_created, request,
                   attempts, only503, last, outcome>>

\* transfer.py lines 86-128: raise_for_status, json, and the except clauses
Classify ==
    /\ pc = "classify"
    /\ UNCHANGED <<post_calls, outer_vars>>
    /\ LET exc == try_body_exception
           h == handler_for(exc)
       IN IF exc = ""
          THEN /\ pending' = [kind |-> "returned", exc |-> "",
                               value |-> loads(response.text)]
               /\ log' = [handler |-> "info", status |-> {},
                           detail |-> IF loads(response.text).txn # ""
                                      THEN loads(response.text).txn ELSE "N/A"]
          ELSE IF h = "none"
          THEN /\ pending' = [kind |-> "raised", exc |-> exc, value |-> None]
               /\ log' = log
          ELSE /\ pending' = [kind |-> "returned", exc |-> "", value |-> None]
               /\ log' = IF h = "HTTPError"
                          THEN [handler |-> h,
                                status |-> IF response.present /\ response_ok(response)
                                           THEN {response.status} ELSE {},
                                detail |-> IF response.present /\ response_ok(response)
                                           THEN response.text ELSE "No response"]
                          ELSE [handler |-> h, status |-> {}, detail |-> exc]
    /\ pc' = "finally"
    /\ UNCHANGED <<args, config, validated, session, sessions_created, request,
                   attempts, retries, delays, only503, last, response, raised,
                   outcome>>

FinallyCloseOnSuccessOnly ==
    /\ pc = "finally"
    /\ UNCHANGED <<post_calls, outer_vars>>
    /\ session' = IF pending.value # None THEN "closed" ELSE session
    /\ outcome' = pending
    /\ pc' = "done"
    /\ UNCHANGED <<args, config, validated, sessions_created, request, attempts,
                   retries, delays, only503, last, response, raised, log,
                   pending>>

\* transfer.py lines 130-133: close the session, then control leaves the call
Finally ==
    /\ pc = "finally"
    /\ UNCHANGED <<post_calls, outer_vars>>
    /\ session' = IF session # "none" THEN "closed" ELSE session
    /\ outcome' = pending
    /\ pc' = "done"
    /\ UNCHANGED <<args, config, validated, sessions_created, request, attempts,
                   retries, delays, only503, last, response, raised, log,
                   pending>>

Next ==
    \/ Call
    \/ Validate
    \/ CreateSession
    \/ SendAttempt
    \/ SendFails
    \/ PostRaises
    \/ Classify
    \/ Finally

Spec == Init /\ [][Next]_vars

(***************************************************************************)
(* cli.py: run_interactive_cli                                             *)
(***************************************************************************)
\* texts a user types at the three prompts
RawFromInputs == {"", " ", "ACC1", " ACC2 ", "quit", "EXIT", " q "}
RawToInputs == {"", "ACC1", " ACC2 "}
RawAmountInputs == {"-1", "0", " 1 ", "nan", "abc", ""}

\* str.strip on the texts above
strip(text) ==
    CASE text = " " -> ""
      [] text = " ACC2 " -> "ACC2"
      [] text = " q " -> "q"
      [] text = " 1 " -> "1"
      [] OTHER -> text

\* str.lower on the stripped texts
lower(text) == IF text = "EXIT" THEN "exit" ELSE text

\* validators.py parse_amount: float(amount_str), ValueError when malformed
parse_amount(text) ==
    CASE text = "-1" -> [ok |-> TRUE, value |-> Num(-1)]
      [] text = "0" -> [ok |-> TRUE, value |-> Num(0)]
      [] text = "1" -> [ok |-> TRUE, value |-> Num(1)]
      [] text = "nan" -> [ok |-> TRUE, value |-> NaN]
      [] OTHER -> [ok |-> FALSE, value |-> Num(0)]

\* truth value of what transfer_money returned, as `if result:` tests it
truthy(value) ==
    CASE value.type = "dict" -> value.n > 0
      [] value.type = "list" -> value.n > 0
      [] OTHER -> FALSE

\* configurations the loop is started with
CliConfigs ==
    {[api_url |-> "http://localhost:8123", timeout |-> 30, max_retries |-> m,
      backoff_factor |-> b] : m \in 0..MaxRetriesBound, b \in BackoffFactors}

\* run_interactive_cli(config, jwt_token) entered, nothing typed yet
InitCli ==
    /\ InitCall
    /\ InitNoStartup
    /\ InitNoThreads
    /\ cli_pc = "prompt"
    /\ cli_config \in CliConfigs
    /\ cli_token \in Tokens
    /\ amount_str = ""
    /\ cli_called = FALSE
    /\ shown = "none"
    /\ exit_cause = "none"

\* the locals of the previous transfer_money call are gone
ForgetCall ==
    /\ pc' = "idle"
    /\ args' = NoArgs
    /\ config' = NoConfig
    /\ validated' = FALSE
    /\ session' = "none"
    /\ sessions_created' = 0
    /\ request' = NoRequest
    /\ attempts' = 0
    /\ retries' = 0
    /\ delays' = <<>>
    /\ only503' = TRUE
    /\ last' = NoLast
    /\ response' = NoResponse
    /\ raised' = ""
    /\ log' = NoLog
    /\ pending' = NoOutcome
    /\ outcome' = NoOutcome
    /\ post_calls' = 0

\* cli.py lines 31-36: the source account is quit, exit or q
CliQuit ==
    /\ cli_pc = "prompt"
    /\ \E raw_from \in RawFromInputs :
          lower(strip(raw_from)) \in {"quit", "exit", "q"}
    /\ cli_pc' = "exited"
    /\ exit_cause' = "quit"
    /\ UNCHANGED <<tm_vars, cli_config, cli_token, amount_str, cli_called, shown,
                   st_vars, cc_vars>>

\* cli.py lines 31-46: the amount text does not parse; continue
CliMalformed ==
    /\ cli_pc = "prompt"
    /\ \E raw_from \in RawFromInputs, raw_amount \in RawAmountInputs :
          /\ lower(strip(raw_from)) \notin {"quit", "exit", "q"}
          /\ ~parse_amount(strip(raw_amount)).ok
          /\ amount_str' = strip(raw_amount)
    /\ ForgetCall
    /\ cli_called' = FALSE
    /\ shown' = "malformed_amount"
    /\ UNCHANGED <<cli_pc, cli_config, cli_token, exit_cause, st_vars, cc_vars>>

\* cli.py lines 31-49: the amount parses and transfer_money is called
CliCall ==
    /\ cli_pc = "prompt"
    /\ \E raw_from \in RawFromInputs, raw_to \in RawToInputs,
          raw_amount \in RawAmountInputs :
          /\ lower(strip(raw_from)) \notin {"quit", "exit", "q"}
          /\ parse_amount(strip(raw_amount)).ok
          /\ amount_str' = strip(raw_amount)
          /\ args' = [from_acc |-> strip(raw_from), to_acc |-> strip(raw_to),
                      amount |-> parse_amount(strip(raw_amount)).value,
                      jwt_token |-> cli_token]
    /\ config' = cli_config
    /\ pc' = "validate"
    /\ validated' = FALSE
    /\ session' = "none"
    /\ sessions_created' = 0
    /\ request' = NoRequest
    /\ attempts' = 0
    /\ retries' = 0
    /\ delays' = <<>>
    /\ only503' = TRUE
    /\ last' = NoLast
    /\ response' = NoResponse
    /\ raised' = ""
    /\ log' = NoLog
    /\ pending' = NoOutcome
    /\ outcome' = NoOutcome
    /\ post_calls' = 0
    /\ cli_pc' = "call"
    /\ cli_called' = TRUE
    /\ shown' = "none"
    /\ UNCHANGED <<cli_config, cli_token, exit_cause, st_vars, cc_vars>>

\* cli.py lines 58-60: a keyboard interrupt at a prompt
CliInterrupt ==
    /\ cli_pc = "prompt"
    /\ cli_pc' = "exited"
    /\ exit_cause' = "interrupt"
    /\ UNCHANGED <<tm_vars, cli_config, cli_token, amount_str, cli_called, shown,
                   st_vars, cc_vars>>

\* cli.py lines 64-66: input() raises (end of input); the loop goes on
CliInputFails ==
    /\ cli_pc = "prompt"
    /\ ForgetCall
    /\ cli_called' = FALSE
    /\ shown' = "unexpected_error"
    /\ UNCHANGED <<cli_pc, cli_config, cli_token, amount_str, exit_cause,
                   st_vars, cc_vars>>

\* a keyboard interrupt while session.post is blocked
CliInterruptCall ==
    /\ cli_pc = "call"
    /\ pc = "post"
    /\ raised' = "KeyboardInterrupt"
    /\ pc' = "classify"
    /\ UNCHANGED <<args, config, validated, session, sessions_created, request,
                   attempts, retries, delays, only503, last, response, log,
                   pending, outcome, post_calls, outer_vars>>

CliResultLeavesOnError ==
    /\ cli_pc = "call"
    /\ pc = "done"
    /\ IF outcome.kind = "raised"
       THEN cli_pc' = "exited" /\ shown' = "validation_error" /\ exit_cause' = "error"
       ELSE /\ cli_pc' = "prompt"
            /\ exit_cause' = exit_cause
            /\ shown' = IF truthy(outcome.value) THEN "success" ELSE "failed"
    /\ UNCHANGED <<tm_vars, cli_config, cli_token, amount_str, cli_called,
                   st_vars, cc_vars>>

\* cli.py lines 49-66: transfer_money has returned or raised
CliResult ==
    /\ cli_pc = "call"
    /\ pc = "done"
    /\ IF outcome.kind = "raised"
       THEN IF outcome.exc = "KeyboardInterrupt"
            THEN cli_pc' = "exited" /\ exit_cause' = "interrupt" /\ shown' = shown
            ELSE /\ cli_pc' = "prompt"
                 /\ exit_cause' = exit_cause
                 /\ shown' = IF outcome.exc \in {"InvalidAmount", "EmptyAccount",
                                                  "SameAccount"}
                              THEN "validation_error" ELSE "unexpected_error"
       ELSE /\ cli_pc' = "prompt"
            /\ exit_cause' = exit_cause
            /\ shown' = IF truthy(outcome.value) THEN "success" ELSE "failed"
    /\ UNCHANGED <<tm_vars, cli_config, cli_token, amount_str, cli_called,
                   st_vars, cc_vars>>

NextCli ==
    \/ CliQuit
    \/ CliMalformed
    \/ CliCall
    \/ CliInterrupt
    \/ CliInputFails
    \/ CliInterruptCall
    \/ CliResult
    \/ Validate
    \/ CreateSession
    \/ SendAttempt
    \/ SendFails
    \/ PostRaises
    \/ Classify
    \/ Finally

SpecCli == InitCli /\ [][NextCli]_vars

(***************************************************************************)
(* config.py from_environment and auth.py get_jwt_token                    *)
(***************************************************************************)
\* texts of TRANSFER_TIMEOUT, TRANSFER_MAX_RETRIES, TRANSFER_BACKOFF_FACTOR;
\* "unset" stands for a variable that is not in the environment
TimeoutTexts == {"unset", "30", "5", "0", "-1", "1.5", "abc"}
MaxRetriesTexts == {"unset", "3", "0", "-1", "abc"}
BackoffTexts == {"unset", "1.0", "0.3", "0", "-1.0", "nan", "abc"}

\* os.getenv(name, default)
getenv(value, default) == IF value = "unset" THEN default ELSE value

\* int(text): ValueError for a text that is not an integer literal
to_int(text) ==
    CASE text = "30" -> [ok |-> TRUE, value |-> 30]
      [] text = "5" -> [ok |-> TRUE, value |-> 5]
      [] text = "3" -> [ok |-> TRUE, value |-> 3]
      [] text = "0" -> [ok |-> TRUE, value |-> 0]
      [] text = "-1" -> [ok |-> TRUE, value |-> -1]
      [] OTHER -> [ok |-> FALSE, value |-> 0]

\* float(text) in tenths: ValueError for a text that is not a float literal
to_float(text) ==
    CASE text = "1.0" -> [ok |-> TRUE, value |-> Num(10)]
      [] text = "0.3" -> [ok |-> TRUE, value |-> Num(3)]
      [] text = "0" -> [ok |-> TRUE, value |-> Num(0)]
      [] text = "-1.0" -> [ok |-> TRUE, value |-> Num(-10)]
      [] text = "nan" -> [ok |-> TRUE, value |-> NaN]
      [] OTHER -> [ok |-> FALSE, value |-> Num(0)]

EnvConfig(t, m, b) ==
    [api_url |-> "http://localhost:8123", timeout |-> t, max_retries |-> m,
     backoff_factor |-> b]

\* config.py lines 23-36: TransferConfig.from_environment
from_environment(e) ==
    LET t == to_int(getenv(e.timeout, "30"))
        m == to_int(getenv(e.max_retries, "3"))
        b == to_float(getenv(e.backoff_factor, "1.0"))
    IN IF t.ok /\ m.ok /\ b.ok
       THEN [kind |-> "returned", cfg |-> EnvConfig(t.value, m.value, b.value)]
       ELSE [kind |-> "raised", cfg |-> EnvConfig(0, 0, Num(0))]

\* answers of the authentication endpoint; status 0 stands for a request
\* that fails in the transport
AuthStatuses == {0, 200, 401, 500}
AuthBodies == {"{\"token\":\"tok\"}", "{\"status\":\"ok\"}",
               "{\"error\":\"not found\"}", "[]", "<html>"}

\* dict.get("token") on the parsed bodies above
get_token(text) ==
    IF text = "{\"token\":\"tok\"}" THEN Token("tok") ELSE NoToken

\* json.loads on the authentication bodies
auth_loads(text) ==
    IF text = "{\"token\":\"tok\"}" THEN Dict(1, "") ELSE loads(text)

\* auth.py lines 18-25: get_jwt_token
get_jwt_token(resp) ==
    IF resp.status = 200 /\ auth_loads(resp.text).type = "dict"
    THEN [kind |-> "returned", token |-> get_token(resp.text)]
    ELSE [kind |-> "raised", token |-> NoToken]

\* the client starts: nothing read from the environment, no token requested
InitStartup ==
    /\ InitCall
    /\ InitNoCli
    /\ InitNoThreads
    /\ st_pc = "start"
    /\ env \in [timeout : TimeoutTexts, max_retries : MaxRetriesTexts,
                 backoff_factor : BackoffTexts]
    /\ cfg_out = NoConfigOut
    /\ auth_resp = NoAuthResp
    /\ token_out = NoTokenOut

\* TransferConfig.from_environment() is called
FromEnvironment ==
    /\ st_pc = "start"
    /\ cfg_out.kind = "none"
    /\ cfg_out' = from_environment(env)
    /\ UNCHANGED <<tm_vars, cli_vars, cc_vars, st_pc, env, auth_resp, token_out>>

\* get_jwt_token(api_url, username, password) is called and the server answers
GetJwtToken ==
    /\ st_pc = "start"
    /\ token_out.kind = "none"
    /\ \E status \in AuthStatuses, text \in AuthBodies :
          /\ status = 0 => text = "<html>"
          /\ auth_resp' = [status |-> status, text |-> text]
          /\ token_out' = get_jwt_token([status |-> status, text |-> text])
    /\ UNCHANGED <<tm_vars, cli_vars, cc_vars, st_pc, env, cfg_out>>

NextStartup ==
    \/ FromEnvironment
    \/ GetJwtToken

SpecStartup == InitStartup /\ [][NextStartup]_vars

(***************************************************************************)
(* Two concurrent transfer_money calls that share one TransferConfig       *)
(***************************************************************************)
ConcMaxRetries == 1

Calls == {1, 2}

\* arguments of a concurrent call: a valid transfer or a same-account one
ConcArgs ==
    {[from_acc |-> "ACC1", to_acc |-> "ACC2", amount |-> Num(1), jwt_token |-> NoToken],
     [from_acc |-> "ACC1", to_acc |-> "ACC1", amount |-> Num(1), jwt_token |-> NoToken]}

ConcConfigs ==
    {[api_url |-> "http://localhost:8123", timeout |-> 30, max_retries |-> m,
      backoff_factor |-> 10] : m \in 0..ConcMaxRetries}

\* what one HTTP attempt of a concurrent call meets
ConcAnswers ==
    {[kind |-> "response", status |-> 200, text |-> "{\"transactionId\":\"TXN1\"}"],
     [kind |-> "response", status |-> 200, text |-> "[]"],
     [kind |-> "response", status |-> 404, text |-> "{\"error\":\"not found\"}"],
     [kind |-> "response", status |-> 503, text |-> "<html>"],
     [kind |-> "ConnectionError", status |-> 0, text |-> ""]}

\* the locals of a call that has just been entered
NewCall(a) ==
    [pc |-> "validate", args |-> a, session |-> 0, seen |-> <<>>, retries |-> 0,
     raised |-> "", response |-> NoResponse, pending |-> NoOutcome,
     outcome |-> NoOutcome]

\* what the except clauses make of the try body's end
outcome_of(exc, resp) ==
    IF exc = "" THEN [kind |-> "returned", exc |-> "", value |-> loads(resp.text)]
    ELSE IF handler_for(exc) = "none"
    THEN [kind |-> "raised", exc |-> exc, value |-> None]
    ELSE [kind |-> "returned", exc |-> "", value |-> None]

shared_session_id ==
    IF live_sessions = {} THEN 1 ELSE CHOOSE id \in live_sessions : TRUE

\* client.py line 26: requests.Session() is a new object for every call
new_session_id == 1 + Cardinality({c \in Calls : threads[c].session # 0})

InitConc ==
    /\ InitCall
    /\ InitNoCli
    /\ InitNoStartup
    /\ threads \in [Calls -> {NewCall(a) : a \in ConcArgs}]
    /\ live_sessions = {}
    /\ shared_config \in ConcConfigs

\* transfer.py line 46 in call c
ConcValidate(c) ==
    /\ threads[c].pc = "validate"
    /\ LET t == threads[c]
           r == validate_transfer_inputs(t.args.from_acc, t.args.to_acc, t.args.amount)
       IN threads' = [threads EXCEPT ![c] =
             IF r # "ok"
             THEN [t EXCEPT !.pc = "done",
                            !.outcome = [kind |-> "raised", exc |-> r, value |-> None]]
             ELSE [t EXCEPT !.pc = "session"]]
    /\ UNCHANGED <<live_sessions, shared_config, tm_vars, cli_vars, st_vars>>

\* transfer.py line 69 in call c: the call's own session
ConcCreateSession(c) ==
    /\ threads[c].pc = "session"
    /\ threads' = [threads EXCEPT ![c] =
                      [@ EXCEPT !.pc = "post", !.session = new_session_id]]
    /\ live_sessions' = live_sessions \cup {new_session_id}
    /\ UNCHANGED <<shared_config, tm_vars, cli_vars, st_vars>>

\* one HTTP attempt of call c inside session.post; a session that was closed
\* under the call fails the request
ConcSend(c) ==
    /\ threads[c].pc = "post"
    /\ LET t == threads[c]
       IN IF t.session \notin live_sessions
          THEN threads' = [threads EXCEPT ![c] =
                             [t EXCEPT !.pc = "classify", !.raised = "ConnectionError"]]
          ELSE \E a \in ConcAnswers :
                 LET again == /\ \/ a.kind # "response"
                                 \/ is_retry("POST", a.status)
                              /\ ~is_exhausted(t.retries, shared_config.max_retries)
                 IN threads' = [threads EXCEPT ![c] =
                       IF again
                       THEN [t EXCEPT !.seen = Append(t.seen, a),
                                      !.retries = t.retries + 1]
                       ELSE IF a.kind = "response"
                       THEN [t EXCEPT !.seen = Append(t.seen, a),
                                      !.pc = "classify",
                                      !.response = [present |-> TRUE,
                                                    status |-> a.status,
                                                    text |-> a.text]]
                       ELSE [t EXCEPT !.seen = Append(t.seen, a),
                                      !.pc = "classify",
                                      !.raised = a.kind]]
    /\ UNCHANGED <<live_sessions, shared_config, tm_vars, cli_vars, st_vars>>

\* transfer.py lines 86-128 in call c
ConcClassify(c) ==
    /\ threads[c].pc = "classify"
    /\ LET t == threads[c]
       IN threads' = [threads EXCEPT ![c] =
             [t EXCEPT !.pc = "finally",
                       !.pending = outcome_of(try_exception(t.raised, t.response),
                                              t.response)]]
    /\ UNCHANGED <<live_sessions, shared_config, tm_vars, cli_vars, st_vars>>

\* transfer.py lines 130-133 in call c: session.close() on the call's session
ConcFinally(c) ==
    /\ threads[c].pc = "finally"
    /\ live_sessions' = live_sessions \ {threads[c].session}
    /\ threads' = [threads EXCEPT ![c] =
                      [@ EXCEPT !.pc = "done", !.outcome = threads[c].pending]]
    /\ UNCHANGED <<shared_config, tm_vars, cli_vars, st_vars>>

NextConc ==
    \E c \in Calls :
       \/ ConcValidate(c)
       \/ ConcCreateSession(c)
       \/ ConcSend(c)
       \/ ConcClassify(c)
       \/ ConcFinally(c)

SpecConc == InitConc /\ [][NextConc]_vars

(***************************************************************************)
(* Properties                                                              *)
(***************************************************************************)
Rejected(r) == [kind |-> "raised", exc |-> r, value |-> None]
ReturnedNone == [kind |-> "returned", exc |-> "", value |-> None]
Returned(v) == [kind |-> "returned", exc |-> "", value |-> v]

InTransferMoney == pc # "idle"
AfterPost == pc \in {"classify", "finally", "done"}
ValidArgs == validate_transfer_inputs(args.from_acc, args.to_acc, args.amount) = "ok"

\* C1: when validation rejects the arguments, transfer_money raises the
\* validation error and creates no session and sends no request; in every
\* call a session or a request exists only after validation has completed
\* and passed.
FailFastGate ==
    InTransferMoney =>
       /\ ~ValidArgs => (session = "none" /\ sessions_created = 0 /\ attempts = 0)
       /\ (pc = "done" /\ ~ValidArgs) =>
             outcome = Rejected(validate_transfer_inputs(args.from_acc,
                                                         args.to_acc, args.amount))
       /\ (sessions_created > 0 \/ attempts > 0) => (validated /\ ValidArgs)

FailFastGateWitness ==
    /\ pc = "done"
    /\ args.from_acc = "ACC1" /\ args.to_acc = "ACC1" /\ args.amount = Num(1)
    /\ outcome = Rejected("SameAccount")
    /\ sessions_created = 0 /\ attempts = 0

\* C2: when transfer_money has returned, the session it created is closed,
\* on every exit path.
SessionRelease ==
    pc = "done" =>
       \/ sessions_created = 0 /\ session = "none"
       \/ sessions_created = 1 /\ session = "closed"

SessionReleaseWitness ==
    /\ pc = "done"
    /\ raised = "Exception"
    /\ sessions_created = 1 /\ session = "closed"

\* C3: a terminal non-2xx response ends in the HTTP-error failure carrying
\* the response's status code and its raw body text.
HttpErrorCarriesStatusAndBody ==
    (pc = "done" /\ response.present /\ response.status >= 400) =>
       /\ outcome = ReturnedNone
       /\ log.handler = "HTTPError"
       /\ log.status = {response.status}
       /\ log.detail = response.text

\* C4: a 2xx response with a valid JSON body of any shape ends in a success
\* carrying the parsed body; a 2xx response with a body that is not JSON
\* ends in the response-parse failure.
SuccessForEveryValidJson ==
    (pc = "done" /\ response.present /\ response.status < 300) =>
       IF loads(response.text) = NotJson
       THEN outcome = ReturnedNone /\ log.handler = "ValueError"
       ELSE outcome = Returned(loads(response.text)) /\ log.handler = "info"

\* C5: when every attempt received 503, the submitter gets the outcome only
\* when the retry budget is used up, no attempt is sent beyond the budget,
\* and the session hands over the last 503 response instead of raising; the
\* submitter then fails through its HTTP-error clause.
RetryBudget503 ==
    InTransferMoney =>
       /\ retries <= config.max_retries
       /\ attempts <= config.max_retries + 1
       /\ (AfterPost /\ attempts > 0 /\ only503) =>
             /\ retries = config.max_retries
             /\ attempts = config.max_retries + 1
             /\ raised = ""
             /\ response.present /\ response.status = 503
       /\ (pc = "done" /\ attempts > 0 /\ only503) =>
             (outcome = ReturnedNone /\ log.handler = "HTTPError")

RetryBudget503Witness ==
    /\ pc = "done"
    /\ only503
    /\ config.max_retries = 3 /\ retries = 3 /\ attempts = 4
    /\ response.status = 503

ClaimRetryable == {429, 500, 502, 503, 504}

NonRetryable(status) == status \notin ClaimRetryable

\* C6: a response whose status is not in {429, 500, 502, 503, 504} is
\* terminal: it is handed to the submitter without a retry and no attempt
\* follows it, so a call whose first response is such has exactly one attempt.
NonRetryableTerminal ==
    /\ [](last.kind = "response" /\ NonRetryable(last.status) =>
            /\ AfterPost
            /\ response.present /\ response.status = last.status
            /\ attempts = retries + 1)
    /\ [][(last'.kind = "response" /\ NonRetryable(last'.status)
           /\ attempts' = attempts + 1) =>
             (retries' = retries /\ delays' = delays)]_vars
    /\ [][(last.kind = "response" /\ NonRetryable(last.status)) =>
             (attempts' = attempts /\ retries' = retries)]_vars

NonRetryableTerminalWitness ==
    /\ pc = "done"
    /\ last.kind = "response" /\ last.status = 400
    /\ config.max_retries = MaxRetriesBound
    /\ attempts = 1 /\ retries = 0

\* C7: the delay before retry n (counted from 1) is backoff_factor * 2^(n-1);
\* with backoff_factor 1.0 and max_retries 4 and every attempt failing the
\* delays are 1s, 2s, 4s, 8s.
BackoffDelays ==
    /\ \A n \in 1..Len(delays) : delays[n] = config.backoff_factor * Pow2(n - 1)
    /\ (AfterPost /\ config.backoff_factor = 10 /\ config.max_retries = 4
         /\ retries = 4) => delays = <<10, 20, 40, 80>>

\* C8: once validation has passed, transfer_money ends by returning: either
\* the parsed body of the response or None; no exception leaves the call.
NoExceptionEscapes ==
    (pc = "done" /\ ValidArgs) =>
       /\ outcome.kind = "returned"
       /\ \/ outcome.value = None
          \/ response.present /\ outcome.value = loads(response.text)

NoExceptionEscapesWitness ==
    /\ pc = "done"
    /\ raised = "Exception"
    /\ outcome = ReturnedNone

\* C9: an amount <= 0 is rejected with the invalid-amount error whatever the
\* accounts are; an amount > 0 with distinct non-empty accounts passes.
ValidatorAmountRule ==
    validated =>
       /\ (args.amount.k = "num" /\ args.amount.v <= 0) =>
             outcome = Rejected("InvalidAmount")
       /\ (args.amount.k = "num" /\ args.amount.v > 0 /\ args.from_acc # ""
           /\ args.to_acc # "" /\ args.from_acc # args.to_acc) =>
             (outcome.kind # "raised" /\ pc # "validate")

ValidatorAmountRuleWitness ==
    /\ validated
    /\ args.from_acc = "ACC1" /\ args.to_acc = "ACC2" /\ args.amount = Num(0)
    /\ outcome = Rejected("InvalidAmount")

\* C10 as stated: equal non-empty accounts are rejected with the same-account
\* error for every amount.
SameAccountForEveryAmount ==
    (validated /\ args.from_acc # "" /\ args.from_acc = args.to_acc) =>
       outcome = Rejected("SameAccount")

\* C10 amended: equal non-empty accounts are rejected with the same-account
\* error for every amount that is not <= 0, and with the invalid-amount error
\* for an amount <= 0; the same-account check comes after the emptiness
\* check, so two empty accounts are rejected as empty.
SameAccountAfterAmountAndEmptiness ==
    (validated /\ args.from_acc = args.to_acc) =>
       IF args.amount.k = "num" /\ args.amount.v <= 0
       THEN outcome = Rejected("InvalidAmount")
       ELSE IF args.from_acc = ""
       THEN outcome = Rejected("EmptyAccount")
       ELSE outcome = Rejected("SameAccount")

SameAccountWitness ==
    /\ validated
    /\ args.from_acc = "ACC2" /\ args.to_acc = "ACC2" /\ args.amount = NaN
    /\ outcome = Rejected("SameAccount")

Blank(acc) == acc \in {"", " "}

PositiveAmount == args.amount.k = "num" /\ args.amount.v > 0

\* C11 as stated: with amount > 0, an account that is empty or consists only
\* of whitespace is rejected with the empty-account error.
EmptyOrBlankRejected ==
    (validated /\ PositiveAmount /\ (Blank(args.from_acc) \/ Blank(args.to_acc))) =>
       outcome = Rejected("EmptyAccount")

\* C11 amended: with amount > 0, an account that is the empty string is
\* rejected with the empty-account error; an account of whitespace only is
\* not empty for the validator and passes next to a different non-empty one.
EmptyAccountRejected ==
    (validated /\ PositiveAmount) =>
       /\ (args.from_acc = "" \/ args.to_acc = "") => outcome = Rejected("EmptyAccount")
       /\ (args.from_acc # "" /\ args.to_acc # "" /\ args.from_acc # args.to_acc
           /\ (Blank(args.from_acc) \/ Blank(args.to_acc))) =>
             outcome.kind # "raised"

EmptyAccountRejectedWitness ==
    /\ validated
    /\ args.from_acc = "ACC1" /\ args.to_acc = "" /\ args.amount = Num(1)
    /\ outcome = Rejected("EmptyAccount")

\* C12: a call that passes validation invokes session.post exactly once; after
\* the outcome reaches the submitter nothing more is sent, and every attempt
\* after the first follows a retry made by the session's policy.
OneLogicalSend ==
    /\ [](/\ post_calls <= 1
          /\ ~ValidArgs => post_calls = 0
          /\ (AfterPost /\ ValidArgs) => post_calls = 1
          /\ attempts > 0 => post_calls = 1
          /\ attempts \in {retries, retries + 1})
    /\ [][AfterPost => (post_calls' = post_calls /\ attempts' = attempts)]_vars

OneLogicalSendWitness ==
    /\ pc = "done"
    /\ post_calls = 1
    /\ attempts = 3 /\ retries = 2
    /\ outcome = ReturnedNone

\* a token was supplied: the argument is neither None nor the empty string
TokenSupplied == ~args.jwt_token.none /\ args.jwt_token.text # ""

AuthorizationHeaders == {h \in request.headers : h[1] = "Authorization"}

\* C13: every request sent carries Content-Type: application/json and
\* User-Agent: MoneyTransferClient/1.0; it carries Authorization: Bearer
\* <token> with the caller's token when a token was supplied, and no
\* Authorization header when none was.
HeadersSent ==
    attempts > 0 =>
       /\ <<"Content-Type", "application/json">> \in request.headers
       /\ <<"User-Agent", "MoneyTransferClient/1.0">> \in request.headers
       /\ TokenSupplied =>
             AuthorizationHeaders = {<<"Authorization", "Bearer " \o args.jwt_token.text>>}
       /\ ~TokenSupplied => AuthorizationHeaders = {}

HeadersSentWitness ==
    /\ attempts > 0
    /\ args.jwt_token = Token("tok")
    /\ <<"Authorization", "Bearer tok">> \in request.headers
    /\ Cardinality(request.headers) = 3

Accepted ==
    /\ response.present
    /\ response.status < 300
    /\ loads(response.text) # NotJson

\* C15: the loop shows a transfer as successful exactly when the server gave
\* a terminal 2xx response with a parseable JSON body.
ShownSuccessIffAccepted ==
    (cli_pc = "prompt" /\ cli_called /\ pc = "done") =>
       (shown = "success" <=> Accepted)

\* C16: the loop leaves only on quit/exit/q or a keyboard interrupt; after a
\* malformed amount, a validation error, a failed transfer or another
\* exception it prompts again; a malformed amount text never reaches
\* transfer_money.
LoopSurvives ==
    /\ [](cli_pc = "exited" => exit_cause \in {"quit", "interrupt"})
    /\ [](cli_pc = "call" => amount_str \notin {"abc", ""})
    /\ [](shown = "malformed_amount" => (~cli_called /\ pc = "idle"))
    /\ [][(cli_pc = "call" /\ pc = "done" /\ outcome.exc # "KeyboardInterrupt")
           => cli_pc' = "prompt"]_vars
    /\ [][(cli_pc = "prompt" /\ cli_pc' = "exited") =>
             exit_cause' \in {"quit", "interrupt"}]_vars
    /\ [][cli_pc = "exited" => cli_pc' = "exited"]_vars

LoopSurvivesWitness ==
    /\ cli_pc = "prompt"
    /\ cli_called
    /\ pc = "done"
    /\ outcome = Rejected("SameAccount")
    /\ shown = "validation_error"

MalformedEnv ==
    \/ env.timeout \in {"1.5", "abc"}
    \/ env.max_retries = "abc"
    \/ env.backoff_factor = "abc"

\* C17: a configuration returned by from_environment has timeout > 0,
\* max_retries >= 0 and backoff_factor >= 0; from_environment fails exactly
\* when a numeric environment value is malformed.
ConfigInvariant ==
    /\ cfg_out.kind = "returned" =>
          /\ cfg_out.cfg.timeout > 0
          /\ cfg_out.cfg.max_retries >= 0
          /\ cfg_out.cfg.backoff_factor.k = "num"
          /\ cfg_out.cfg.backoff_factor.v >= 0
    /\ cfg_out.kind = "raised" => MalformedEnv

\* C18: get_jwt_token either returns a token string or raises; it never
\* returns None.
TokenOrRaise ==
    /\ token_out.kind = "returned" => ~token_out.token.none
    /\ (token_out.kind # "none" /\ auth_resp.status # 200) => token_out.kind = "raised"

\* the outcome of a call that runs alone and meets the answers in seen, or
\* NoOutcome when the call alone would not have stopped exactly there
RECURSIVE Replay(_, _, _, _)
Replay(seen, i, used, budget) ==
    IF i > Len(seen) THEN NoOutcome
    ELSE LET a == seen[i]
             retryable == a.kind # "response" \/ a.status \in ClaimRetryable
         IN IF retryable /\ used < budget
            THEN Replay(seen, i + 1, used + 1, budget)
            ELSE IF i # Len(seen) THEN NoOutcome
            ELSE IF a.kind # "response" THEN ReturnedNone
            ELSE IF a.status >= 400 THEN ReturnedNone
            ELSE IF loads(a.text).type = "dict" THEN Returned(loads(a.text))
            ELSE ReturnedNone

RunAlone(a, seen, budget) ==
    IF a.from_acc = a.to_acc THEN Rejected("SameAccount")
    ELSE Replay(seen, 1, 0, budget)

InSession(c) == threads[c].pc \in {"post", "classify", "finally"}

\* C19: two concurrent calls that share a config have sessions of their own;
\* a call's session stays open until that call closes it, whatever the other
\* call does; the shared config is never modified; and each call ends with
\* the outcome it would have had alone with the same answers.
ConcurrentIndependence ==
    /\ [](\A c \in DOMAIN threads :
            /\ InSession(c) => threads[c].session \in live_sessions
            /\ threads[c].pc = "done" =>
                  /\ threads[c].session \notin live_sessions
                  /\ threads[c].outcome =
                        RunAlone(threads[c].args, threads[c].seen,
                                 shared_config.max_retries)
            /\ \A d \in DOMAIN threads :
                  (c # d /\ threads[c].session # 0) =>
                     threads[c].session # threads[d].session)
    /\ [][shared_config' = shared_config]_vars
    /\ [][\A c \in DOMAIN threads :
             (threads'[c] = threads[c] /\ InSession(c)) =>
                threads[c].session \in live_sessions']_vars

ConcurrentIndependenceWitness ==
    /\ DOMAIN threads = Calls
    /\ threads[1].pc = "done" /\ threads[1].session # 0
    /\ threads[1].outcome = Returned(Dict(1, "TXN1"))
    /\ threads[2].pc = "post" /\ Len(threads[2].seen) = 1
    /\ threads[2].session \in live_sessions

====
